---- MODULE Spec2Model ----
(***************************************************************************)
(* react-doctor: the circular-dependency rule (engine/rules/               *)
(* circularDepsRule.ts, DFS version) as a state machine.                   *)
(*                                                                         *)
(* Strings that are paths or module specifiers are modelled structurally:  *)
(* a string is a record [segs, bs] where segs is the string split at its   *)
(* path separators and every segment is in turn the segment split at its   *)
(* "." characters; bs says that the separators are written as backslashes. *)
(*   "src/a.ts"          = [segs |-> <<<<"src">>, <<"a","ts">>>>, bs |-> FALSE] *)
(*   "src\b\index.ts"    = the same shape with bs |-> TRUE                 *)
(*   "./b"               = <<<<"","">>, <<"b">>>>      ("." splits to "","")   *)
(*   "../a"              = <<<<"","","">>, <<"a">>>>                       *)
(* The node:path functions are modelled with their win32 behaviour (both   *)
(* separators split a path, results are written with backslashes); on      *)
(* posix the same results come out written with "/", which is what         *)
(* normalize() turns the win32 results into.                               *)
(***************************************************************************)
EXTENDS Integers, Sequences, FiniteSets, TLC

VARIABLES
    files,       \* the snapshot handed to run(): sequence of ScannedFile
    pc,          \* position of run(): "build", "dfs", "done"
    graphKeys,   \* insertion order of the keys of the Map `graph`
    graph,       \* the Map `graph`: node -> sequence of resolved targets
    issues,      \* the array `issues`
    visited,     \* the Set `visited`
    stack,       \* the Set `stack`
    frames,      \* active calls of dfs: [node, pathStack, i], innermost last
    ri,          \* number of keys the root loop (line 75) has started dfs for
    prev,        \* what the previous run() on this snapshot's project returned
    edit,        \* how the snapshot of this run differs from the previous run's
    other,       \* a second invocation of run(), while it is not the one stepping
    arg,         \* the argument of a call of scanWorkspace's sort or of
                 \* calculateHealthScore
    ret,         \* what that call returned
    calls,       \* how often dfs was entered in this run, and how often its
                 \* body past the visited test (line 64) was
    graphAll,    \* the object `graphAll` of the transitive-closure version of
                 \* run(): node -> sequence of its keys, in insertion order
    hasChanges,  \* its flag `hasChanges`
    baseline,    \* extension.ts: the module variable `baseline`
    lastIssues,  \* extension.ts: the module variable `lastIssues`
    statusBar,   \* extension.ts: what statusBar.text shows
    providerIssues, \* IssuesProvider: the field `issues`
    health,      \* IssuesProvider: the field `health`
    showAllInfo, \* IssuesProvider: the field `showAllInfo`
    tasks        \* the command handlers that are suspended at an await

vars == <<files, pc, graphKeys, graph, issues, visited, stack, frames, ri,
          prev, edit, other, arg, ret, calls, graphAll, hasChanges, baseline,
          lastIssues, statusBar, providerIssues, health, showAllInfo, tasks>>

\* The state of the extension and of its tree provider
extension == <<baseline, lastIssues, statusBar, providerIssues, health, showAllInfo,
         tasks>>

\* What a run of the rule alone does not touch
aux == <<other, arg, ret, graphAll, hasChanges, extension>>

----------------------------------------------------------------------------
(* Bounds of the model *)

\* Total number of source lines in a snapshot (over all its files).
MaxLines == 3

----------------------------------------------------------------------------
(* Strings *)

Str(segs) == [segs |-> segs, bs |-> FALSE]
WinStr(segs) == [segs |-> segs, bs |-> Len(segs) > 1]

\* The segments "." and ".."
Dot == <<"", "">>
DotDot == <<"", "", "">>

\* JavaScript's undefined, as returned by Array.prototype.find
Undefined == [segs |-> <<>>, bs |-> FALSE]

Range(s) == {s[i] : i \in 1..Len(s)}

\* p.replace(/\\/g, "/")
normalize(p) == [segs |-> p.segs, bs |-> FALSE]

\* raw.startsWith(".")
StartsWithDot(s) ==
    /\ Len(s.segs) >= 1
    /\ Len(s.segs[1]) >= 2
    /\ s.segs[1][1] = ""

\* path.normalize on a list of segments: "." is dropped, ".." removes the
\* segment before it when there is one that is not itself ".."
RECURSIVE NormSegs(_, _)
NormSegs(todo, done) ==
    IF todo = <<>> THEN done
    ELSE LET s == Head(todo) IN
         IF s = Dot THEN NormSegs(Tail(todo), done)
         ELSE IF s = DotDot /\ done # <<>> /\ done[Len(done)] # DotDot
              THEN NormSegs(Tail(todo), SubSeq(done, 1, Len(done) - 1))
              ELSE NormSegs(Tail(todo), Append(done, s))

\* path.join(a, b)
PathJoin(a, b) ==
    LET n == NormSegs(a.segs \o b.segs, <<>>)
    IN  WinStr(IF n = <<>> THEN <<Dot>> ELSE n)

\* path.dirname(p) of a relative path
PathDirname(p) ==
    IF Len(p.segs) <= 1 THEN Str(<<Dot>>)
    ELSE [segs |-> SubSeq(p.segs, 1, Len(p.segs) - 1),
          bs |-> p.bs /\ Len(p.segs) > 2]

\* `${base}.${ext}`: the extension is appended to the last segment
WithExt(base, ext) ==
    [segs |-> [base.segs EXCEPT ![Len(base.segs)] = Append(@, ext)],
     bs |-> base.bs]

----------------------------------------------------------------------------
(* Specifier Resolver *)

\* The extensions tried, in the order of the candidate list
Exts == <<"ts", "tsx", "js", "jsx">>

\* new Set(files.map((f) => normalize(f.relPath)))
KnownSet(fs) == {normalize(fs[i].relPath) : i \in 1..Len(fs)}

\* The index files are tried before the extensions
CandidatesIndexFirst(base) ==
    <<base>>
    \o [i \in 1..4 |->
          [segs |-> NormSegs(base.segs \o <<<<"index", <<"ts", "tsx", "js", "jsx">>[i]>>>>, <<>>),
           bs |-> FALSE]]
    \o [i \in 1..4 |->
          [segs |-> [base.segs EXCEPT ![Len(base.segs)] =
                        Append(@, <<"ts", "tsx", "js", "jsx">>[i])],
           bs |-> base.bs]]

\* const candidates = [...]
Candidates(base) ==
    <<base>>
    \o [i \in 1..Len(Exts) |-> WithExt(base, Exts[i])]
    \o [i \in 1..Len(Exts) |->
          normalize(PathJoin(base, Str(<<<<"index", Exts[i]>>>>)))]

\* candidates.find((c) => set.has(c))
FindFirst(cands, set) ==
    LET hits == {i \in 1..Len(cands) : cands[i] \in set}
    IN  IF hits = {} THEN Undefined
        ELSE cands[CHOOSE i \in hits : \A j \in hits : i <= j]

resolveRelativeToKnownFile(fromRel, raw, fs) ==
    LET fromDir == PathDirname(fromRel)
        base == normalize(PathJoin(fromDir, raw))
    IN  FindFirst(Candidates(base), KnownSet(fs))

----------------------------------------------------------------------------
(* Import Extractor and Graph Builder *)

\* A source line is a record [kind, spec]:
\*   kind "from"    import ... from "<spec>"      (IMPORT_RE, group 1)
\*   kind "bare"    import "<spec>"               (IMPORT_RE, group 1)
\*   kind "require" require("<spec>")            (IMPORT_RE, group 2)
\*   kind "other"   a line IMPORT_RE does not match
ImportKinds == {"from", "bare", "require"}

\* f.content.matchAll(IMPORT_RE), then m[1] || m[2]: the specifiers of the
\* import-like statements, in source order
RECURSIVE RawSpecifiers(_)
RawSpecifiers(lines) ==
    IF lines = <<>> THEN <<>>
    ELSE IF Head(lines).kind \in ImportKinds /\ Head(lines).spec # Undefined
         THEN <<Head(lines).spec>> \o RawSpecifiers(Tail(lines))
         ELSE RawSpecifiers(Tail(lines))

\* Every specifier is resolved
IsRelativeAlways(raw) == TRUE

\* if (!raw.startsWith(".")) {continue;}
IsRelative(raw) == StartsWithDot(raw)

\* The body of the loop over the matches of one file: the array `deps`
RECURSIVE DepsOf(_, _, _)
DepsOf(fromRel, raws, fs) ==
    IF raws = <<>> THEN <<>>
    ELSE LET raw == Head(raws)
             rest == DepsOf(fromRel, Tail(raws), fs)
         IN  IF ~IsRelative(raw) THEN rest
             ELSE LET resolved == resolveRelativeToKnownFile(fromRel, raw, fs)
                  IN  IF resolved # Undefined THEN <<resolved>> \o rest
                      ELSE rest

Deps(f, fs) == DepsOf(f.relPath, RawSpecifiers(f.lines), fs)

\* The key is the relPath as given
GraphKeyRaw(f) == f.relPath

\* The key under which a file's deps are stored: normalize(f.relPath)
GraphKey(f) == normalize(f.relPath)

\* Map.prototype.set: a new key goes last, an old key keeps its place
MapSetKeys(keys, k) == IF k \in Range(keys) THEN keys ELSE Append(keys, k)
MapSet(m, k, v) == [x \in (DOMAIN m) \cup {k} |-> IF x = k THEN v ELSE m[x]]

\* The Map after the first n iterations of  for (const f of files)
RECURSIVE GraphAfter(_, _)
GraphAfter(fs, n) ==
    IF n = 0 THEN [keys |-> <<>>, map |-> <<>>]
    ELSE LET g == GraphAfter(fs, n - 1)
             f == fs[n]
         IN  [keys |-> MapSetKeys(g.keys, GraphKey(f)),
              map |-> MapSet(g.map, GraphKey(f), Deps(f, fs))]

\* graph.get(node) || []
Neighbors(g, node) == IF node \in DOMAIN g THEN g[node] ELSE <<>>

----------------------------------------------------------------------------
(* Line Locator *)

\* path.relative(from, to) for two relative paths below the same root
RECURSIVE CommonPrefix(_, _)
CommonPrefix(a, b) ==
    IF a # <<>> /\ b # <<>> /\ Head(a) = Head(b)
    THEN 1 + CommonPrefix(Tail(a), Tail(b))
    ELSE 0

PathRelative(from, to) ==
    LET f == NormSegs(from.segs, <<>>)
        t == NormSegs(to.segs, <<>>)
        c == CommonPrefix(f, t)
    IN  WinStr([i \in 1..(Len(f) - c) |-> DotDot] \o SubSeq(t, c + 1, Len(t)))

\* rel.startsWith(".") ? rel : `./${rel}`
RelWithDot(rel) ==
    IF StartsWithDot(rel) THEN rel
    ELSE [segs |-> <<Dot>> \o rel.segs, bs |-> rel.bs]

\* relWithDot.replace(/\.(tsx?|jsx?)$/i, "")
WithoutExt(s) ==
    LET n == Len(s.segs)
        last == IF n = 0 THEN <<>> ELSE s.segs[n]
    IN  IF n > 0 /\ Len(last) >= 2 /\ last[Len(last)] \in Range(Exts)
        THEN [segs |-> [s.segs EXCEPT ![n] = SubSeq(last, 1, Len(last) - 1)],
              bs |-> s.bs]
        ELSE s

\* reImport.test(l) || reReq.test(l): the line holds  from "<spec>"  or
\* require("<spec>")
LineNames(l, spec) == l.kind \in {"from", "require"} /\ l.spec = spec

\* Returns the 0-based index of the first matching line, or -1
findImportLine(fromRel, toRel, lines) ==
    LET fromDir == normalize(PathDirname(fromRel))
        toNorm == normalize(toRel)
        rel == normalize(PathRelative(fromDir, toNorm))
        relWithDot == RelWithDot(rel)
        withoutExt == WithoutExt(relWithDot)
        specs == <<withoutExt, relWithDot>>
        hits == {i \in 1..Len(lines) :
                   \E k \in 1..Len(specs) : LineNames(lines[i], specs[k])}
    IN  IF hits = {} THEN -1
        ELSE (CHOOSE i \in hits : \A j \in hits : i <= j) - 1

----------------------------------------------------------------------------
(* Issue Synthesizer *)

\* files.find((f) => normalize(f.relPath) === normalize(rel)), as an index
\* into files (0: not found)
FindFile(rel, fs) ==
    LET hits == {i \in 1..Len(fs) : normalize(fs[i].relPath) = normalize(rel)}
    IN  IF hits = {} THEN 0 ELSE CHOOSE i \in hits : \A j \in hits : i <= j

\* The relative path is returned as it is
absPathForRelUnmapped(rel, fs) == rel

\* files.find(...)?.path ?? rel
absPathForRel(rel, fs) ==
    IF FindFile(rel, fs) = 0 THEN rel ELSE fs[FindFile(rel, fs)].path

\* The closing node is left out
CycleOfOpen(pathStack, node) == pathStack

\* const cycle = [...pathStack, node]
CycleOf(pathStack, node) == Append(pathStack, node)

\* A line that was not found is reported as line 1
LineOfDefaultFirst(cycle, fs) ==
    LET k == FindFile(cycle[1], fs)
    IN  IF k # 0 /\ Len(cycle) >= 2
        THEN <<IF findImportLine(cycle[1], cycle[2], fs[k].lines) >= 0
               THEN findImportLine(cycle[1], cycle[2], fs[k].lines) + 1
               ELSE 1>>
        ELSE <<>>

\* The line of an issue: <<n>> for the number n, <<>> for undefined
LineOf(cycle, fs) ==
    LET startRel == cycle[1]
        k == FindFile(startRel, fs)
    IN  IF k # 0 /\ Len(cycle) >= 2
        THEN LET idx == findImportLine(startRel, cycle[2], fs[k].lines)
             IN  IF idx >= 0 THEN <<idx + 1>> ELSE <<>>
        ELSE <<>>

\* The record pushed onto issues; id and message keep the text around the
\* joined node sequence and the separator it is joined with (the message's
\* separator is the arrow U+2192 between two spaces, written "->" here)
MakeIssue(cycle, fs) ==
    [id |-> [prefix |-> "cycle:", sep |-> "->", nodes |-> cycle],
     severity |-> "ERROR",
     message |-> [prefix |-> "Circular dependency: ", sep |-> " -> ",
                  nodes |-> cycle],
     filePath |-> absPathForRel(cycle[1], fs),
     line |-> LineOf(cycle, fs),
     ruleId |-> "circular-deps"]

\* The characters of a string, in pieces: a name, ".", "/", "\\" or the two
\* characters "->". A name part that holds "->" is cut around it.
Pieces(part) ==
    IF part = "" THEN <<>>
    ELSE IF part = "ts->src" THEN <<"ts", "->", "src">>
    ELSE <<part>>

\* Array.prototype.join on pieces
RECURSIVE JoinPieces(_, _)
JoinPieces(texts, sep) ==
    IF texts = <<>> THEN <<>>
    ELSE IF Len(texts) = 1 THEN texts[1]
    ELSE texts[1] \o sep \o JoinPieces(Tail(texts), sep)

\* The characters of a path string
Text(p) ==
    JoinPieces([i \in 1..Len(p.segs) |->
                  JoinPieces([j \in 1..Len(p.segs[i]) |-> Pieces(p.segs[i][j])],
                             <<".">>)],
               <<IF p.bs THEN "\\" ELSE "/">>)

\* cycle.join(sep)
Join(nodes, sep) == JoinPieces([i \in 1..Len(nodes) |-> Text(nodes[i])], <<sep>>)

\* The id names the first node only
IdTextOfStart(id) == <<id.prefix>> \o Text(id.nodes[1])

\* The characters of `cycle:${cycle.join("->")}`
IdText(id) == <<id.prefix>> \o Join(id.nodes, id.sep)

----------------------------------------------------------------------------
(* Snapshots the rule is run on *)

A_TS == Str(<<<<"src">>, <<"a", "ts">>>>)
B_TS == Str(<<<<"src">>, <<"b", "ts">>>>)
\* A relPath as path.relative writes it on win32: src\b\index.ts
B_INDEX == [segs |-> <<<<"src">>, <<"b">>, <<"index", "ts">>>>, bs |-> TRUE]

RelPaths == {A_TS, B_TS, B_INDEX}

\* A package specifier, "b": not relative, and named like the stem of a
\* scanned file, so that it would resolve if it were not discarded
PKG == Str(<<<<"b">>>>)

\* "./a", "./b", "./b/index", "../a", "b"
Specifiers ==
    {Str(<<Dot, <<"a">>>>), Str(<<Dot, <<"b">>>>),
     Str(<<Dot, <<"b">>, <<"index">>>>), Str(<<DotDot, <<"a">>>>), PKG}

External == [kind |-> "from", spec |-> PKG]

\* The lines of the scanned files: import statements with these specifiers
Statements == {[kind |-> "from", spec |-> sp] : sp \in Specifiers}

\* uri.fsPath of a scanned file: the workspace root followed by its relPath
AbsPath(rel) == [root |-> "/ws", rel |-> rel]

ScannedFile(rel, lines) == [path |-> AbsPath(rel), relPath |-> rel, lines |-> lines]

FileOrders ==
    {o \in UNION {[1..n -> RelPaths] : n \in 0..Cardinality(RelPaths)} :
        \A i, j \in 1..Len(o) : i # j => o[i] # o[j]}

LineSeqs == UNION {[1..n -> Statements] : n \in 0..MaxLines}

\* The ways to cut a sequence of k lines into n consecutive files
Cuts(n, k) ==
    {c \in [0..n -> 0..k] :
        /\ c[0] = 0
        /\ c[n] = k
        /\ \A i \in 1..n : c[i - 1] <= c[i]}

TotalLines(fs) ==
    LET RECURSIVE Sum(_)
        Sum(i) == IF i = 0 THEN 0 ELSE Len(fs[i].lines) + Sum(i - 1)
    IN  Sum(Len(fs))

----------------------------------------------------------------------------
(* run(): graph construction, lines 11-29 *)

NoResult == [graphKeys |-> <<>>, graph |-> <<>>, issues |-> <<>>]

\* No second invocation, no call of the sort or of the score
NoOther == [pc |-> "none"]
Alone ==
    /\ prev = NoResult
    /\ edit = "none"
    /\ other = NoOther
    /\ arg = <<>>
    /\ ret = <<>>

NoCalls == [dfs |-> 0, body |-> 0]

\* null
Null == [null |-> TRUE]

\* statusBar.text = "React Doctor: --" (line 246)
NoScore == [text |-> "--"]

\* The extension after activate(): lines 77, 85-86, 238-247 of extension.ts
\* and the field initialisers of IssuesProvider; no command is running
Activated ==
    /\ baseline = Null
    /\ lastIssues = <<>>
    /\ statusBar = NoScore
    /\ providerIssues = <<>>
    /\ health = Null
    /\ showAllInfo = FALSE
    /\ tasks = <<>>

\* The transitive-closure version of run() has not made its objects
NoClosure ==
    /\ graphAll = <<>>
    /\ hasChanges = FALSE

\* The state of a run that has just been entered
Entered ==
    /\ calls = NoCalls
    /\ NoClosure
    /\ Activated
    /\ pc = "build"
    /\ graphKeys = <<>>
    /\ graph = <<>>
    /\ issues = <<>>
    /\ visited = {}
    /\ stack = {}
    /\ frames = <<>>
    /\ ri = 0

Init ==
    /\ \E o \in FileOrders, all \in LineSeqs :
         /\ (o = <<>>) => (all = <<>>)
         /\ \E c \in Cuts(Len(o), Len(all)) :
              files = [i \in 1..Len(o) |->
                         ScannedFile(o[i], SubSeq(all, c[i - 1] + 1, c[i]))]
    /\ Entered
    /\ Alone

\* Each relPath is normalized in place: f.relPath = normalize(f.relPath)
FilesNormalizedInPlace(fs) ==
    [i \in 1..Len(fs) |-> [fs[i] EXCEPT !.relPath = normalize(@)]]

\* The files after the loop of lines 13-29: it reads f.content and f.relPath
\* and assigns to neither (normalize returns a new string)
FilesAfterBuild(fs) == fs

\* The set outlives the invocation that made it
SetKept(old) == old

\* new Set<string>(): a set of this invocation, empty, whatever an earlier
\* invocation left in its own
NewSet(old) == {}

\* The graph is built, one Map entry per file, and issues, visited and
\* stack are created (lines 11-33)
BuildGraph ==
    /\ pc = "build"
    /\ pc' = "dfs"
    /\ graph' = GraphAfter(files, Len(files)).map
    /\ graphKeys' = GraphAfter(files, Len(files)).keys
    /\ issues' = <<>>
    /\ visited' = NewSet(visited)
    /\ stack' = NewSet(stack)
    /\ files' = FilesAfterBuild(files)
    /\ UNCHANGED <<frames, ri, prev, edit, aux, calls>>

----------------------------------------------------------------------------
(* run(): the cycle detector, lines 35-77 *)

\* The stack test reads the visited set
DfsBranchVisitedAsCycle(node, vis, stk) ==
    IF node \in vis THEN "cycle" ELSE "fresh"

\* The visited test comes before the stack test
DfsBranchVisitedFirst(node, vis, stk) ==
    IF node \in vis THEN "visited"
    ELSE IF node \in stk THEN "cycle"
    ELSE "fresh"

\* The visited test is missing
DfsBranchNoVisitedTest(node, vis, stk) ==
    IF node \in stk THEN "cycle" ELSE "fresh"

\* Which of the three ways a call dfs(node, ...) goes: lines 36, 62, 64
DfsBranch(node, vis, stk) ==
    IF node \in stk THEN "cycle"
    ELSE IF node \in vis THEN "visited"
    ELSE "fresh"

\* The node stays on the stack
StackDeleteMissing(stk, node) == stk

\* stack.delete(node)
StackDelete(stk, node) == stk \ {node}

\* The node is not recorded as visited
VisitedAddMissing(vis, node) == vis

\* visited.add(node)
VisitedAdd(vis, node) == vis \cup {node}

\* if (stack.has(node)) { ... issues.push(...); return; }
DfsCycle(node, pathStack, caller) ==
    /\ DfsBranch(node, visited, stack) = "cycle"
    /\ issues' = Append(issues, MakeIssue(CycleOf(pathStack, node), files))
    /\ frames' = caller
    /\ calls' = [calls EXCEPT !.dfs = @ + 1]
    /\ UNCHANGED <<visited, stack>>

\* if (visited.has(node)) {return;}
DfsVisited(node, pathStack, caller) ==
    /\ DfsBranch(node, visited, stack) = "visited"
    /\ frames' = caller
    /\ calls' = [calls EXCEPT !.dfs = @ + 1]
    /\ UNCHANGED <<issues, visited, stack>>

\* visited.add(node); stack.add(node); and the loop over neighbors begins
DfsFresh(node, pathStack, caller) ==
    /\ DfsBranch(node, visited, stack) = "fresh"
    /\ visited' = VisitedAdd(visited, node)
    /\ stack' = stack \cup {node}
    /\ frames' = Append(caller, [node |-> node, pathStack |-> pathStack, i |-> 0])
    /\ calls' = [dfs |-> calls.dfs + 1, body |-> calls.body + 1]
    /\ UNCHANGED issues

dfs(node, pathStack, caller) ==
    \/ DfsCycle(node, pathStack, caller)
    \/ DfsVisited(node, pathStack, caller)
    \/ DfsFresh(node, pathStack, caller)

\* for (const node of graph.keys()) { dfs(node, []); }
RootCall ==
    /\ pc = "dfs"
    /\ frames = <<>>
    /\ ri < Len(graphKeys)
    /\ ri' = ri + 1
    /\ dfs(graphKeys[ri + 1], <<>>, frames)
    /\ UNCHANGED <<files, pc, graphKeys, graph, prev, edit, aux>>

\* for (const n of neighbors) { dfs(n, [...pathStack, node]); }
NeighborCall ==
    /\ pc = "dfs"
    /\ frames # <<>>
    /\ LET top == frames[Len(frames)]
           nbs == Neighbors(graph, top.node)
       IN  /\ top.i < Len(nbs)
           /\ dfs(nbs[top.i + 1], Append(top.pathStack, top.node),
                  [frames EXCEPT ![Len(frames)].i = top.i + 1])
    /\ UNCHANGED <<files, pc, graphKeys, graph, ri, prev, edit, aux>>

\* The loop is left after the first neighbor
LoopLeftEarly(i, nbs) == i = Len(nbs) \/ i >= 1

\* for (const n of neighbors) has gone through all of neighbors
LoopOver(i, nbs) == i = Len(nbs)

\* The loop over neighbors is over: stack.delete(node) and dfs returns
DfsReturn ==
    /\ pc = "dfs"
    /\ frames # <<>>
    /\ LET top == frames[Len(frames)] IN
         /\ LoopOver(top.i, Neighbors(graph, top.node))
         /\ stack' = StackDelete(stack, top.node)
    /\ frames' = SubSeq(frames, 1, Len(frames) - 1)
    /\ UNCHANGED <<files, pc, graphKeys, graph, issues, visited, ri, prev, edit,
                   aux, calls>>

\* return issues;
RunReturn ==
    /\ pc = "dfs"
    /\ frames = <<>>
    /\ ri = Len(graphKeys)
    /\ pc' = "done"
    /\ UNCHANGED <<files, graphKeys, graph, issues, visited, stack, frames, ri,
                   prev, edit, aux, calls>>

Next ==
    \/ BuildGraph
    \/ RootCall
    \/ NeighborCall
    \/ DfsReturn
    \/ RunReturn

Spec == Init /\ [][Next]_vars

----------------------------------------------------------------------------
(* The rule is run again: on the same snapshot, or on the snapshot after an *)
(* import of a package was added to or removed from one of its files        *)

InsertAt(s, k, x) == SubSeq(s, 1, k - 1) \o <<x>> \o SubSeq(s, k, Len(s))
RemoveAt(s, k) == SubSeq(s, 1, k - 1) \o SubSeq(s, k + 1, Len(s))

NonRelativeImport(l) == l.kind \in ImportKinds /\ ~StartsWithDot(l.spec)

ExternalEdits(fs) ==
    {[fs EXCEPT ![i].lines = InsertAt(@, k, External)] :
        <<i, k>> \in {ik \in (1..Len(fs)) \X (1..(MaxLines + 1)) :
                        /\ TotalLines(fs) < MaxLines
                        /\ ik[2] <= Len(fs[ik[1]].lines) + 1}}
    \cup
    {[fs EXCEPT ![i].lines = RemoveAt(@, k)] :
        <<i, k>> \in {ik \in (1..Len(fs)) \X (1..MaxLines) :
                        /\ ik[2] <= Len(fs[ik[1]].lines)
                        /\ NonRelativeImport(fs[ik[1]].lines[ik[2]])}}

\* run() is entered anew: every piece of its state is created afresh
Enter ==
    /\ pc' = "build"
    /\ graphKeys' = <<>>
    /\ graph' = <<>>
    /\ issues' = <<>>
    /\ visited' = NewSet(visited)
    /\ stack' = NewSet(stack)
    /\ frames' = <<>>
    /\ ri' = 0
    /\ calls' = NoCalls
    /\ prev' = [graphKeys |-> graphKeys, graph |-> graph, issues |-> issues]

Rerun ==
    /\ pc = "done"
    /\ edit = "none"
    /\ edit' = "same"
    /\ files' = files
    /\ Enter
    /\ UNCHANGED aux

EditExternal ==
    /\ pc = "done"
    /\ edit = "none"
    /\ edit' = "external"
    /\ files' \in ExternalEdits(files)
    /\ Enter
    /\ UNCHANGED aux

NextEdit == Next \/ EditExternal

SpecEdit == Init /\ [][NextEdit]_vars

NextRerun == Next \/ Rerun

SpecRerun == Init /\ [][NextRerun]_vars

----------------------------------------------------------------------------
(* The rule run on snapshots that probe the resolver: src/a.ts with one     *)
(* import, and any of the files the nine candidates for "src/b" name        *)

\* src/b, src/b.ts, ..., src/b/index.jsx, in an order unlike the candidates'
ProbeFiles ==
    <<Str(<<<<"src">>, <<"b">>, <<"index", "jsx">>>>),
      Str(<<<<"src">>, <<"b", "js">>>>),
      Str(<<<<"src">>, <<"b">>, <<"index", "ts">>>>),
      Str(<<<<"src">>, <<"b", "jsx">>>>),
      Str(<<<<"src">>, <<"b">>>>),
      Str(<<<<"src">>, <<"b">>, <<"index", "js">>>>),
      Str(<<<<"src">>, <<"b", "tsx">>>>),
      Str(<<<<"src">>, <<"b">>, <<"index", "tsx">>>>),
      B_TS>>

\* "./b", "./b.ts", "./b/index", "../b"
ProbeSpecifiers ==
    {Str(<<Dot, <<"b">>>>), Str(<<Dot, <<"b", "ts">>>>),
     Str(<<Dot, <<"b">>, <<"index">>>>), Str(<<DotDot, <<"b">>>>)}

\* The members of a sequence that a set of positions picks, in order
RECURSIVE Picked(_, _, _)
Picked(q, keep, i) ==
    IF i > Len(q) THEN <<>>
    ELSE (IF i \in keep THEN <<q[i]>> ELSE <<>>) \o Picked(q, keep, i + 1)

InitResolve ==
    /\ \E keep \in SUBSET (1..Len(ProbeFiles)), raw \in ProbeSpecifiers :
         LET known == Picked(ProbeFiles, keep, 1) IN
             files = <<ScannedFile(A_TS, <<[kind |-> "from", spec |-> raw]>>)>>
                     \o [i \in 1..Len(known) |-> ScannedFile(known[i], <<>>)]
    /\ Entered
    /\ Alone

SpecResolve == InitResolve /\ [][Next]_vars

----------------------------------------------------------------------------
(* The rule run on snapshots in which two files share a stem: src/b.ts and  *)
(* src/b.tsx next to src/a.ts                                               *)

B_TSX == Str(<<<<"src">>, <<"b", "tsx">>>>)

LocatePaths == {A_TS, B_TS, B_TSX}

\* import ... from "./a", from "./b", from "./b.tsx"
LocateStatements ==
    {[kind |-> "from", spec |-> sp] :
        sp \in {Str(<<Dot, <<"a">>>>), Str(<<Dot, <<"b">>>>),
                Str(<<Dot, <<"b", "tsx">>>>)}}

\* The snapshots over a set of relPaths and a set of source lines: the files
\* in any order, at most MaxLines lines in all
SnapshotsOf(paths, stmts) ==
    LET orders == {o \in UNION {[1..n -> paths] : n \in 0..Cardinality(paths)} :
                      \A i, j \in 1..Len(o) : i # j => o[i] # o[j]}
        seqs == UNION {[1..n -> stmts] : n \in 0..MaxLines}
    IN  UNION {UNION {{[i \in 1..Len(o) |->
                          ScannedFile(o[i], SubSeq(all, c[i - 1] + 1, c[i]))] :
                         c \in Cuts(Len(o), Len(all))} :
                      all \in {q \in seqs : (o = <<>>) => (q = <<>>)}} :
               o \in orders}

InitLocate ==
    /\ files \in SnapshotsOf(LocatePaths, LocateStatements)
    /\ Entered
    /\ Alone

SpecLocate == InitLocate /\ [][Next]_vars

----------------------------------------------------------------------------
(* The rule run on snapshots in which a directory name holds the characters *)
(* "->": src/a.ts->src/a.ts is the file a.ts in the directory src/a.ts->src *)

ARROW_A_TS == Str(<<<<"src">>, <<"a", "ts->src">>, <<"a", "ts">>>>)

NamesPaths == {A_TS, B_TS, ARROW_A_TS}

\* import ... from "./a", from "../a", from "./b"
NamesStatements ==
    {[kind |-> "from", spec |-> sp] :
        sp \in {Str(<<Dot, <<"a">>>>), Str(<<DotDot, <<"a">>>>),
                Str(<<Dot, <<"b">>>>)}}

InitNames ==
    /\ files \in SnapshotsOf(NamesPaths, NamesStatements)
    /\ Entered
    /\ Alone

SpecNames == InitNames /\ [][Next]_vars

----------------------------------------------------------------------------
(* Two invocations of run() in progress at once, their steps interleaved in *)
(* any way. The variables hold the invocation that takes the next step and  *)
(* `other` holds the one that waits.                                        *)

\* The argument and the locals of the invocation that is stepping; mid says
\* that the two have changed places while both were inside dfs
Mine(mid) ==
    [files |-> files, pc |-> pc, graphKeys |-> graphKeys, graph |-> graph,
     issues |-> issues, visited |-> visited, stack |-> stack,
     frames |-> frames, ri |-> ri, calls |-> calls, mid |-> mid]

\* One set serves every invocation: the one stepping next finds what the
\* last one left
SharedSet(current, saved) == current

\* visited and stack are declared inside run(): the invocation stepping next
\* finds its own set as it left it
OwnSet(current, saved) == saved

\* The other invocation takes the next steps
Switch ==
    /\ other.pc # "none"
    /\ other' = Mine(other.mid \/ (frames # <<>> /\ other.frames # <<>>))
    /\ files' = other.files
    /\ pc' = other.pc
    /\ graphKeys' = other.graphKeys
    /\ graph' = other.graph
    /\ issues' = other.issues
    /\ visited' = OwnSet(visited, other.visited)
    /\ stack' = OwnSet(stack, other.stack)
    /\ frames' = other.frames
    /\ ri' = other.ri
    /\ calls' = other.calls
    /\ UNCHANGED <<prev, edit, arg, ret, graphAll, hasChanges, extension>>

PairPaths == {A_TS, B_TS}

\* import ... from "./a", from "./b"
PairStatements ==
    {[kind |-> "from", spec |-> sp] :
        sp \in {Str(<<Dot, <<"a">>>>), Str(<<Dot, <<"b">>>>)}}

Reverse(q) == [i \in 1..Len(q) |-> q[Len(q) + 1 - i]]

\* Both invocations have just been entered, on the same files in the same
\* or in the opposite order
InitPair ==
    /\ files \in SnapshotsOf(PairPaths, PairStatements)
    /\ Entered
    /\ prev = NoResult
    /\ edit = "none"
    /\ arg = <<>>
    /\ ret = <<>>
    /\ \E theirs \in {files, Reverse(files)} :
         other = [files |-> theirs, pc |-> "build", graphKeys |-> <<>>,
                  graph |-> <<>>, issues |-> <<>>, visited |-> {},
                  stack |-> {}, frames |-> <<>>, ri |-> 0, calls |-> NoCalls,
                  mid |-> FALSE]

NextPair == Next \/ Switch

SpecPair == InitPair /\ [][NextPair]_vars

----------------------------------------------------------------------------
(* scanWorkspace: the issues of all rules, sorted (healthScore.ts 87-94)    *)

\* Length of the issue array that scanWorkspace sorts
MaxScan == 3

Severities == {"ERROR", "WARN", "INFO"}

\* const order = { ERROR: 2, WARN: 1, INFO: 0 }
order == [ERROR |-> 2, WARN |-> 1, INFO |-> 0]

\* a.localeCompare(b) for the paths /ws/src/a.ts and /ws/src/b.ts
localeCompare(a, b) ==
    IF a = b THEN 0
    ELSE IF a = AbsPath(A_TS) THEN -1
    ELSE 1

\* (a, b) => order[a.severity] - order[b.severity]
\*             || a.filePath.localeCompare(b.filePath)
Compare(a, b) ==
    IF order[a.severity] - order[b.severity] # 0
    THEN order[a.severity] - order[b.severity]
    ELSE localeCompare(a.filePath, b.filePath)

\* Array.prototype.sort(compare), which is stable: x goes behind every
\* element that does not compare greater than it
RECURSIVE InsertSorted(_, _)
InsertSorted(x, sorted) ==
    IF sorted = <<>> THEN <<x>>
    ELSE IF Compare(Head(sorted), x) <= 0
         THEN <<Head(sorted)>> \o InsertSorted(x, Tail(sorted))
         ELSE <<x>> \o sorted

RECURSIVE SortedBy(_)
SortedBy(q) ==
    IF q = <<>> THEN <<>>
    ELSE InsertSorted(q[Len(q)], SortedBy(SubSeq(q, 1, Len(q) - 1)))

\* The issues the rules returned, as far as the sort and the score read them
ScanIssues ==
    [severity : Severities, filePath : {AbsPath(A_TS), AbsPath(B_TS)},
     ruleId : {"circular-deps", "big-file"}]

\* No run of the rule is in progress
NoRun ==
    /\ files = <<>>
    /\ pc = "idle"
    /\ graphKeys = <<>>
    /\ graph = <<>>
    /\ issues = <<>>
    /\ visited = {}
    /\ stack = {}
    /\ frames = <<>>
    /\ ri = 0
    /\ prev = NoResult
    /\ edit = "none"
    /\ other = NoOther
    /\ calls = NoCalls
    /\ NoClosure
    /\ Activated

\* The rules have run: arg is the array `issues` after the loop of line 88
InitScan ==
    /\ NoRun
    /\ arg \in UNION {[1..n -> ScanIssues] : n \in 0..MaxScan}
    /\ ret = <<>>

\* issues.sort(...); return issues;
SortIssues ==
    /\ pc = "idle"
    /\ ret = <<>>
    /\ ret' = <<SortedBy(arg)>>
    /\ UNCHANGED <<files, pc, graphKeys, graph, issues, visited, stack, frames,
                   ri, prev, edit, other, arg, calls, graphAll, hasChanges,
                   extension>>

NextScan == SortIssues

SpecScan == InitScan /\ [][NextScan]_vars

----------------------------------------------------------------------------
(* calculateHealthScore (healthScore.ts 3-59, both versions)                *)
(* A Number is held in hundredths: 100 is 10000, 1.58 is 158.              *)

\* Number of issues in a list that is scored
MaxIssues == 19

\* Hundredths in one unit
Scale == 100

Min(a, b) == IF a <= b THEN a ELSE b
Max(a, b) == IF a >= b THEN a ELSE b

\* Math.log2(n) for n = 1..32, to the nearest hundredth
Log2Table ==
    <<0, 100, 158, 200, 232, 258, 281, 300, 317, 332, 346, 358, 370, 381, 391,
      400, 409, 417, 425, 432, 439, 446, 452, 458, 464, 470, 475, 481, 486,
      491, 495, 500>>

\* function logPenalty(count, weight)
logPenalty(count, weight) ==
    IF count = 0 THEN 0 ELSE weight * Log2Table[count + 1]

\* The value is not rounded
MathRoundMissing(x) == x

\* Math.round(x): the nearest integer, halves upwards
MathRound(x) == ((x + (Scale \div 2)) \div Scale) * Scale

\* issues.filter((i) => i.severity === sev).length
CountSeverity(q, sev) ==
    Cardinality({i \in 1..Len(q) : q[i].severity = sev})

\* infoByRule: the number of INFO issues of each rule that has one
infoByRule(q) ==
    [r \in {q[i].ruleId : i \in {j \in 1..Len(q) : q[j].severity = "INFO"}} |->
        Cardinality({i \in 1..Len(q) :
                        q[i].severity = "INFO" /\ q[i].ruleId = r})]

\* for (const count of infoByRule.values()) infoPenalty += logPenalty(count, 2)
RECURSIVE SumLogPenalty(_, _)
SumLogPenalty(m, rules) ==
    IF rules = {} THEN 0
    ELSE LET r == CHOOSE x \in rules : TRUE
         IN  logPenalty(m[r], 2) + SumLogPenalty(m, rules \ {r})

LabelOf(score, good, risky, critical) ==
    IF score < critical * Scale THEN "Critical"
    ELSE IF score < risky * Scale THEN "Risky"
    ELSE IF score < good * Scale THEN "Good"
    ELSE "Excellent"

\* calculateHealthScore, lines 8-39: capped penalties
calculateHealthScore(q) ==
    LET errors == CountSeverity(q, "ERROR")
        warns == CountSeverity(q, "WARN")
        errorPenalty == Min(60 * Scale, errors * 20 * Scale)
        warnPenalty == Min(25 * Scale, warns * 5 * Scale)
        infoPenalty ==
            Min(15 * Scale, SumLogPenalty(infoByRule(q), DOMAIN infoByRule(q)))
        score == Max(0, MathRound(100 * Scale
                                    - (errorPenalty + warnPenalty + infoPenalty)))
    IN  [score |-> score, label |-> LabelOf(score, 85, 65, 40)]

\* calculateHealthScore, lines 42-59: linear penalties
RECURSIVE LinearPenalty(_)
LinearPenalty(q) ==
    IF q = <<>> THEN 0
    ELSE (IF Head(q).severity = "ERROR" THEN 10 * Scale
          ELSE IF Head(q).severity = "WARN" THEN 5 * Scale
          ELSE Scale)
         + LinearPenalty(Tail(q))

calculateHealthScoreLinear(q) ==
    LET score == Max(0, 100 * Scale - LinearPenalty(q))
    IN  [score |-> score, label |-> LabelOf(score, 90, 70, 40)]

InfoRules == <<"big-file", "img-alt", "index-as-key", "tab-index">>

\* A list of n issues of one severity and one rule
Issues(n, sev, rule) ==
    [i \in 1..n |-> [severity |-> sev, filePath |-> AbsPath(A_TS), ruleId |-> rule]]

\* The lists that are scored: at most MaxIssues issues, the errors, then the
\* warnings, then the INFO issues rule by rule
InitScore ==
    /\ NoRun
    /\ \E e \in 0..MaxIssues :
         \E w \in 0..(MaxIssues - e) :
           \E c1 \in 0..(MaxIssues - e - w) :
             \E c2 \in 0..(MaxIssues - e - w - c1) :
               \E c3 \in 0..(MaxIssues - e - w - c1 - c2) :
                 \E c4 \in 0..(MaxIssues - e - w - c1 - c2 - c3) :
                   arg = Issues(e, "ERROR", "circular-deps")
                         \o Issues(w, "WARN", "big-file")
                         \o Issues(c1, "INFO", InfoRules[1])
                         \o Issues(c2, "INFO", InfoRules[2])
                         \o Issues(c3, "INFO", InfoRules[3])
                         \o Issues(c4, "INFO", InfoRules[4])
    /\ ret = <<>>

\* Both versions are called on the list
Score ==
    /\ pc = "idle"
    /\ ret = <<>>
    /\ ret' = <<[capped |-> calculateHealthScore(arg),
                 linear |-> calculateHealthScoreLinear(arg)]>>
    /\ UNCHANGED <<files, pc, graphKeys, graph, issues, visited, stack, frames,
                   ri, prev, edit, other, arg, calls, graphAll, hasChanges,
                   extension>>

NextScore == Score

SpecScore == InitScore /\ [][NextScore]_vars

----------------------------------------------------------------------------
(* The transitive-closure version of run(): the graph is an object of       *)
(* objects, graphAll is grown to a fixed point, and the cycles are listed    *)
(* by getIssues from every node that reaches itself                          *)

\* The keys of an object after the assignments target[k] = ... for the k of
\* src in order: a new key goes last, an old key keeps its place
RECURSIVE ObjectAssign(_, _)
ObjectAssign(target, src) ==
    IF src = <<>> THEN target
    ELSE ObjectAssign(MapSetKeys(target, Head(src)), Tail(src))

\* The object `deps` of one file: deps[resolved] = true for each resolved
\* import (lines 16-29)
DepsObject(f, fs) == ObjectAssign(<<>>, Deps(f, fs))

\* The object `graph` after the first n iterations of  for (const f of files)
RECURSIVE GraphObjectAfter(_, _)
GraphObjectAfter(fs, n) ==
    IF n = 0 THEN [keys |-> <<>>, map |-> <<>>]
    ELSE LET g == GraphObjectAfter(fs, n - 1)
             f == fs[n]
         IN  [keys |-> MapSetKeys(g.keys, GraphKey(f)),
              map |-> MapSet(g.map, GraphKey(f), DepsObject(f, fs))]

\* Lines 13-35: graph is built, graphAll = { ...graph }, hasChanges = true
BuildGraphObject ==
    /\ pc = "build"
    /\ pc' = "while"
    /\ graph' = GraphObjectAfter(files, Len(files)).map
    /\ graphKeys' = GraphObjectAfter(files, Len(files)).keys
    /\ graphAll' = graph'
    /\ hasChanges' = TRUE
    /\ UNCHANGED <<files, issues, visited, stack, frames, ri, prev, edit, other,
                   arg, ret, calls, extension>>

\* while (hasChanges) { hasChanges = false; for (const dependant in graphAll)
WhileEnter ==
    /\ pc = "while"
    /\ hasChanges
    /\ hasChanges' = FALSE
    /\ pc' = "forin"
    /\ ri' = 0
    /\ UNCHANGED <<files, graphKeys, graph, issues, visited, stack, frames, prev,
                   edit, other, arg, ret, calls, graphAll, extension>>

\* The object dependenciesOfDependencies of lines 40-48: the keys of
\* graphAll[dependant], then those of graphAll[d] || {} for each of them
RECURSIVE DependenciesOfDependencies(_, _, _)
DependenciesOfDependencies(gAll, acc, todo) ==
    IF todo = <<>> THEN acc
    ELSE DependenciesOfDependencies(
             gAll, ObjectAssign(acc, Neighbors(gAll, Head(todo))), Tail(todo))

\* The length is never seen to differ
GrewNever(initialLength, merged) == FALSE

\* Object.keys(dependenciesOfDependencies).length !== initialLength
Grew(initialLength, merged) == Len(merged) # initialLength

\* graphAll[dependant] and graph[dependant] are one object, and the merge is
\* written into it
GraphAliased(g, dependant, merged) == [g EXCEPT ![dependant] = merged]

\* dependenciesOfDependencies is a new object: what graph[dependant] refers
\* to is not written
GraphUntouched(g, dependant, merged) == g

\* One iteration of the loop of line 38
Expand ==
    /\ pc = "forin"
    /\ ri < Len(graphKeys)
    /\ ri' = ri + 1
    /\ LET dependant == graphKeys[ri + 1]
           initialLength == Len(graphAll[dependant])
           merged == DependenciesOfDependencies(graphAll, graphAll[dependant],
                                                graphAll[dependant])
       IN  IF Grew(initialLength, merged)
           THEN /\ hasChanges' = TRUE
                /\ graphAll' = [graphAll EXCEPT ![dependant] = merged]
                /\ graph' = GraphUntouched(graph, dependant, merged)
           ELSE UNCHANGED <<hasChanges, graphAll, graph>>
    /\ UNCHANGED <<files, pc, graphKeys, issues, visited, stack, frames, prev,
                   edit, other, arg, ret, calls, extension>>

\* The loop of line 38 has gone through the keys of graphAll
ForInOver ==
    /\ pc = "forin"
    /\ ri = Len(graphKeys)
    /\ pc' = "while"
    /\ UNCHANGED <<files, graphKeys, graph, issues, visited, stack, frames, ri,
                   prev, edit, other, arg, ret, calls, graphAll, hasChanges,
                   extension>>

\* The while loop is left; let issues = [] (line 102)
WhileExit ==
    /\ pc = "while"
    /\ ~hasChanges
    /\ pc' = "collect"
    /\ ri' = 0
    /\ issues' = <<>>
    /\ UNCHANGED <<files, graphKeys, graph, visited, stack, frames, prev, edit,
                   other, arg, ret, calls, graphAll, hasChanges, extension>>

\* The path closes on any of its nodes
ClosesCycleAnywhere(dependency, path) == dependency \in Range(path)

\* path.length > 0 && dependency === path[0]
ClosesCycle(dependency, path) == path # <<>> /\ dependency = path[1]

\* getIssues (lines 56-97) together with a record of its calls that got as
\* far as visited.add (line 89), each with its arguments. Every recursive
\* call is handed new Set(visited), so what one branch adds is not seen by
\* the next.
RECURSIVE GetIssuesRun(_, _, _, _, _)
GetIssuesRun(dependency, path, vis, fs, g) ==
    IF ClosesCycle(dependency, path)
    THEN [issues |-> <<MakeIssue(Append(path, dependency), fs)>>,
          bodies |-> <<>>]
    ELSE IF dependency \in vis
    THEN [issues |-> <<>>, bodies |-> <<>>]
    ELSE LET deps == Neighbors(g, dependency)
             RECURSIVE Over(_)
             Over(k) ==
                 IF k > Len(deps) THEN [issues |-> <<>>, bodies |-> <<>>]
                 ELSE LET one == GetIssuesRun(deps[k], Append(path, dependency),
                                              vis \cup {dependency}, fs, g)
                          rest == Over(k + 1)
                      IN  [issues |-> one.issues \o rest.issues,
                           bodies |-> one.bodies \o rest.bodies]
             all == Over(1)
         IN  [issues |-> all.issues,
              bodies |-> <<[dependency |-> dependency, path |-> path,
                            visited |-> vis]>> \o all.bodies]

getIssues(dependency, path, vis, fs, g) ==
    GetIssuesRun(dependency, path, vis, fs, g).issues

\* issues = newIssues
IssuesReplaced(old, newIssues) == newIssues

\* issues = [...issues, ...newIssues]
IssuesAppended(old, newIssues) == old \o newIssues

\* One iteration of the loop of lines 103-108
Collect ==
    /\ pc = "collect"
    /\ ri < Len(graphKeys)
    /\ ri' = ri + 1
    /\ LET dependant == graphKeys[ri + 1] IN
         IF dependant \in Range(graphAll[dependant])
         THEN issues' = IssuesAppended(issues,
                            getIssues(dependant, <<>>, {}, files, graph))
         ELSE issues' = issues
    /\ UNCHANGED <<files, pc, graphKeys, graph, visited, stack, frames, prev,
                   edit, other, arg, ret, calls, graphAll, hasChanges, extension>>

\* return issues;
ReturnIssues ==
    /\ pc = "collect"
    /\ ri = Len(graphKeys)
    /\ pc' = "done"
    /\ UNCHANGED <<files, graphKeys, graph, issues, visited, stack, frames, ri,
                   prev, edit, other, arg, ret, calls, graphAll, hasChanges,
                   extension>>

NextClosure ==
    \/ BuildGraphObject
    \/ WhileEnter
    \/ Expand
    \/ ForInOver
    \/ WhileExit
    \/ Collect
    \/ ReturnIssues

SpecClosure == Init /\ [][NextClosure]_vars

----------------------------------------------------------------------------
(* getIssues called on its own, as its tests call it: from a start node,     *)
(* with an empty path and a visited set of the caller                        *)

\* The graph is that of the files; the start node is one of them or a file
\* that was not scanned; visited is the caller's Set
InitGetIssues ==
    /\ files \in SnapshotsOf(PairPaths, PairStatements)
    /\ graph = GraphObjectAfter(files, Len(files)).map
    /\ graphKeys = GraphObjectAfter(files, Len(files)).keys
    /\ pc = "idle"
    /\ issues = <<>>
    /\ stack = {}
    /\ frames = <<>>
    /\ ri = 0
    /\ calls = NoCalls
    /\ NoClosure
    /\ Activated
    /\ prev = NoResult
    /\ edit = "none"
    /\ other = NoOther
    /\ visited \in SUBSET PairPaths
    /\ \E dependency \in PairPaths \cup {B_INDEX} :
         arg = [dependency |-> dependency, path |-> <<>>, visited |-> visited]
    /\ ret = <<>>

\* getIssues(dependency, [], visited, files, graph); visited.add(dependency)
\* of line 89 is made on the caller's Set
CallGetIssues ==
    /\ pc = "idle"
    /\ ret = <<>>
    /\ ret' = <<GetIssuesRun(arg.dependency, arg.path, visited, files, graph)>>
    /\ visited' = IF ClosesCycle(arg.dependency, arg.path)
                     \/ arg.dependency \in visited
                  THEN visited
                  ELSE visited \cup {arg.dependency}
    /\ UNCHANGED <<files, pc, graphKeys, graph, issues, stack, frames, ri, prev,
                   edit, other, arg, calls, graphAll, hasChanges, extension>>

NextGetIssues == CallGetIssues

SpecGetIssues == InitGetIssues /\ [][NextGetIssues]_vars

----------------------------------------------------------------------------
(* IssuesProvider.setIssues and toggleShowAllInfo. The text fields of an     *)
(* issue are sequences of pieces of text, so that the key of line 25 is the  *)
(* text the template literal makes of them.                                  *)

MaxProvided == 3

\* `${i.line ?? ""}`: nothing for undefined, the digits of a number
LineText(line) == IF line = <<>> THEN <<>> ELSE <<ToString(line[1])>>

\* `${i.severity}|${i.ruleId}|${i.filePath}|${i.line ?? ""}|${i.message}`
KeyOf(i) ==
    <<i.severity, "|", i.ruleId, "|">> \o i.filePath \o <<"|">>
        \o LineText(i.line) \o <<"|">> \o i.message

\* issues.filter(...) of lines 23-29: an issue is kept when its key has not
\* been seen
Filtered(list) ==
    LET RECURSIVE Pass(_, _)
        Pass(k, seen) ==
            IF k > Len(list) THEN <<>>
            ELSE IF KeyOf(list[k]) \in seen THEN Pass(k + 1, seen)
                 ELSE <<list[k]>> \o Pass(k + 1, seen \cup {KeyOf(list[k])})
    IN  Pass(1, {})

\* Issues of one rule in the files f and f|3, on line 3 or on no line, with
\* the messages m and |m
ProvidedIssues ==
    [id : {"x", "y"}, severity : {"ERROR"}, ruleId : {"img-alt"},
     filePath : {<<"f">>, <<"f", "|", "3">>}, line : {<<>>, <<3>>},
     message : {<<"m">>, <<"|", "m">>}]

InitProvider ==
    /\ NoRun
    /\ arg \in UNION {[1..n -> ProvidedIssues] : n \in 0..MaxProvided}
    /\ ret = <<>>

\* provider.setIssues(arg): the health argument is left out
CallSetIssues ==
    /\ pc = "idle"
    /\ ret = <<>>
    /\ providerIssues' = Filtered(arg)
    /\ health' = Null
    /\ ret' = <<"set">>
    /\ UNCHANGED <<files, pc, graphKeys, graph, issues, visited, stack, frames,
                   ri, prev, edit, other, arg, calls, graphAll, hasChanges,
                   baseline, lastIssues, statusBar, showAllInfo, tasks>>

\* toggleShowAllInfo(), and the command reactDoctor.toggleInfo
ToggleShowAllInfo ==
    /\ pc = "idle"
    /\ showAllInfo' = ~showAllInfo
    /\ UNCHANGED <<files, pc, graphKeys, graph, issues, visited, stack, frames,
                   ri, prev, edit, other, arg, ret, calls, graphAll, hasChanges,
                   baseline, lastIssues, statusBar, providerIssues, health,
                   tasks>>

NextProvider == CallSetIssues \/ ToggleShowAllInfo

SpecProvider == InitProvider /\ [][NextProvider]_vars

----------------------------------------------------------------------------
(* The extension: its commands, each running until it awaits and resumed    *)
(* when what it awaits is there. tasks holds the suspended handlers:         *)
(* [cmd, at, snap], snap being the handler's local prev or beforeSnap.       *)

MaxTasks == 2

ERR == [id |-> "x", severity |-> "ERROR", ruleId |-> "img-alt",
        filePath |-> <<"f">>, line |-> <<3>>, message |-> <<"m">>]
WRN == [id |-> "y", severity |-> "WARN", ruleId |-> "big-file",
        filePath |-> <<"f">>, line |-> <<>>, message |-> <<"m">>]

\* What scanWorkspace can resolve to, the workspace being what it is when
\* it is scanned
ScanResults == {<<>>, <<ERR>>, <<ERR, ERR>>, <<ERR, WRN>>}

\* function makeSnapshot(issues), lines 88-95
makeSnapshot(list) ==
    [score |-> calculateHealthScore(list).score,
     label |-> calculateHealthScore(list).label,
     issueCount |-> Len(list)]

\* function formatDelta(before, after), lines 97-104: pct
formatDelta(before, after) ==
    LET deltaScore == after.score - before.score
        base == Max(Scale, before.score)
    IN  (200 * deltaScore + base) \div (2 * base)

\* lastIssues keeps its value
LastIssuesKept(old, list) == old

\* lastIssues = issues (line 132)
LastIssuesAfter(old, list) == list

\* runScanAndUpdateUI from line 124 on, scanWorkspace having resolved to
\* `list`; no caller passes opts
UpdateUI(list) ==
    LET snap == makeSnapshot(list) IN
        /\ baseline' = IF baseline = Null THEN snap ELSE baseline
        /\ providerIssues' = Filtered(list)
        /\ health' = [score |-> snap.score, label |-> snap.label]
        /\ lastIssues' = LastIssuesAfter(lastIssues, list)
        /\ statusBar' = [score |-> snap.score, label |-> snap.label,
                         pct |-> <<>>]

runVars == <<files, pc, graphKeys, graph, issues, visited, stack, frames, ri,
             prev, edit, other, arg, ret, calls, graphAll, hasChanges>>

\* reactDoctor.scan up to the await of line 123
ScanCommand ==
    /\ pc = "idle"
    /\ Len(tasks) < MaxTasks
    /\ tasks' = Append(tasks, [cmd |-> "scan", at |-> "scanWorkspace",
                               snap |-> baseline])
    /\ UNCHANGED <<runVars, baseline, lastIssues, statusBar, providerIssues,
                   health, showAllInfo>>

\* scanWorkspace resolves for a reactDoctor.scan: lines 124-148, 283-292
ScanDone ==
    /\ pc = "idle"
    /\ \E k \in 1..Len(tasks), list \in ScanResults :
         /\ tasks[k].cmd = "scan"
         /\ UpdateUI(list)
         /\ tasks' = RemoveAt(tasks, k)
    /\ UNCHANGED <<runVars, showAllInfo>>

\* reactDoctor.fixAllSafe up to the await of line 123: lines 435-456
FixAllSafeCommand ==
    /\ pc = "idle"
    /\ Len(tasks) < MaxTasks
    /\ LET beforeSnap == IF baseline # Null THEN baseline
                         ELSE makeSnapshot(lastIssues)
       IN  /\ baseline' = IF baseline = Null THEN beforeSnap ELSE baseline
           /\ tasks' = Append(tasks, [cmd |-> "fixAllSafe", at |-> "scan1",
                                      snap |-> beforeSnap])
    /\ UNCHANGED <<runVars, lastIssues, statusBar, providerIssues, health,
                   showAllInfo>>

\* Its first scan resolves: lines 124-148, 457-483. With no edit to make it
\* returns; else it awaits editor.edit
FixScanned ==
    /\ pc = "idle"
    /\ \E k \in 1..Len(tasks), list \in ScanResults, edits \in BOOLEAN :
         /\ tasks[k].cmd = "fixAllSafe"
         /\ tasks[k].at = "scan1"
         /\ UpdateUI(list)
         /\ tasks' = IF edits THEN [tasks EXCEPT ![k].at = "edit"]
                      ELSE RemoveAt(tasks, k)
    /\ UNCHANGED <<runVars, showAllInfo>>

\* editor.edit resolves and the second scan is begun: lines 483-487, 123
FixEdited ==
    /\ pc = "idle"
    /\ \E k \in 1..Len(tasks) :
         /\ tasks[k].cmd = "fixAllSafe"
         /\ tasks[k].at = "edit"
         /\ tasks' = [tasks EXCEPT ![k].at = "scan2"]
    /\ UNCHANGED <<runVars, baseline, lastIssues, statusBar, providerIssues,
                   health, showAllInfo>>

\* Its second scan resolves: lines 124-148, 488-498
FixRescanned ==
    /\ pc = "idle"
    /\ \E k \in 1..Len(tasks), list \in ScanResults :
         LET afterSnap == makeSnapshot(list) IN
             /\ tasks[k].cmd = "fixAllSafe"
             /\ tasks[k].at = "scan2"
             /\ providerIssues' = Filtered(list)
             /\ health' = [score |-> afterSnap.score, label |-> afterSnap.label]
             /\ lastIssues' = LastIssuesAfter(lastIssues, list)
             /\ statusBar' = [score |-> afterSnap.score,
                              label |-> afterSnap.label,
                              pct |-> <<formatDelta(tasks[k].snap, afterSnap)>>]
             /\ baseline' = afterSnap
             /\ tasks' = RemoveAt(tasks, k)
    /\ UNCHANGED <<runVars, showAllInfo>>

\* reactDoctor.resetBaseline, lines 503-506
ResetBaseline ==
    /\ pc = "idle"
    /\ baseline' = Null
    /\ UNCHANGED <<runVars, lastIssues, statusBar, providerIssues, health,
                   showAllInfo, tasks>>

NextExtension ==
    \/ ScanCommand
    \/ ScanDone
    \/ FixAllSafeCommand
    \/ FixScanned
    \/ FixEdited
    \/ FixRescanned
    \/ ResetBaseline

\* After activate(): nothing scanned, no command running
InitExtension ==
    /\ NoRun
    /\ arg = <<>>
    /\ ret = <<>>

SpecExtension == InitExtension /\ [][NextExtension]_vars

----------------------------------------------------------------------------
(* Graph notions the properties are stated with *)

Nodes == DOMAIN graph
Edge(u, v) == u \in Nodes /\ v \in Range(graph[u])

SimpleSeqs(S) ==
    {q \in UNION {[1..n -> S] : n \in 1..Cardinality(S)} :
        \A i, j \in 1..Len(q) : i # j => q[i] # q[j]}

\* q lists the nodes of a directed cycle, each once
IsCycleSeq(q) ==
    /\ \A k \in 1..(Len(q) - 1) : Edge(q[k], q[k + 1])
    /\ Edge(q[Len(q)], q[1])

DirectedCycles == {q \in SimpleSeqs(Nodes) : IsCycleSeq(q)}

\* The edge u -> v lies on a directed cycle
EdgeOnCycle(u, v) ==
    \E q \in DirectedCycles :
        \E k \in 1..Len(q) : q[k] = u /\ q[(k % Len(q)) + 1] = v

GraphBuilt == pc \in {"dfs", "done"}

CycleNodes(issue) == issue.id.nodes

\* The relative import statements of a file
RelativeImports(f) ==
    {k \in 1..Len(f.lines) :
        f.lines[k].kind \in ImportKinds /\ StartsWithDot(f.lines[k].spec)}

----------------------------------------------------------------------------
(* Properties *)

\* Two files, each with one relative import, which resolves to the other
MutualPair ==
    /\ Len(files) = 2
    /\ \A i \in 1..2 :
         /\ Cardinality(RelativeImports(files[i])) = 1
         /\ Deps(files[i], files) = <<normalize(files[3 - i].relPath)>>

\* C1: a snapshot of exactly two files that import each other, one relative
\* import each, in either order, yields exactly one issue, of severity ERROR
\* and ruleId "circular-deps", whose cycle names exactly the two files.
C1_MutualImportOneIssue ==
    (pc = "done" /\ MutualPair) =>
        /\ Len(issues) = 1
        /\ issues[1].severity = "ERROR"
        /\ issues[1].ruleId = "circular-deps"
        /\ Range(CycleNodes(issues[1])) =
              {normalize(files[1].relPath), normalize(files[2].relPath)}

C1_Witness ==
    /\ pc = "done"
    /\ MutualPair
    /\ files[1].relPath = B_INDEX
    /\ files[2].relPath = A_TS
    /\ Len(issues) = 1

\* C2: when the resolved import graph has no directed cycle (the empty
\* snapshot, a file without imports, an acyclic chain), no issue is reported;
\* stated from the issue's side: an issue is there only if a cycle is.
C2_AcyclicNoIssue ==
    (GraphBuilt /\ issues # <<>>) => DirectedCycles # {}

\* An acyclic chain over three files has been searched completely
C2_Witness ==
    /\ pc = "done"
    /\ DirectedCycles = {}
    /\ \E q \in SimpleSeqs(Nodes) :
         Len(q) = 3 /\ Edge(q[1], q[2]) /\ Edge(q[2], q[3])
    /\ issues = <<>>

\* C3: when the resolved import graph has a directed cycle, at least one
\* ERROR issue is returned, and the node sequence of some returned issue
\* contains every file of some directed cycle.
C3_CycleReported ==
    pc = "done" =>
        LET cycles == DirectedCycles IN
            cycles # {} =>
                \E k \in 1..Len(issues) :
                    /\ issues[k].severity = "ERROR"
                    /\ \E q \in cycles :
                         Range(q) \subseteq Range(CycleNodes(issues[k]))

\* The ring over all three files was searched and an issue names all three
C3_Witness ==
    /\ pc = "done"
    /\ \E q \in DirectedCycles : Len(q) = 3
    /\ \E k \in 1..Len(issues) : Range(CycleNodes(issues[k])) = Nodes

\* One file whose only resolvable import resolves to the file itself
SelfImport ==
    /\ Len(files) = 1
    /\ Deps(files[1], files) = <<normalize(files[1].relPath)>>

\* C4: a single file whose only resolvable import resolves to itself yields
\* exactly one ERROR issue, whose cycle is the two-element sequence [a, a].
C4_SelfImportOneIssue ==
    (pc = "done" /\ SelfImport) =>
        /\ Len(issues) = 1
        /\ issues[1].severity = "ERROR"
        /\ CycleNodes(issues[1]) =
              <<normalize(files[1].relPath), normalize(files[1].relPath)>>

C4_Witness ==
    /\ pc = "done"
    /\ SelfImport
    /\ Len(files[1].lines) = 3
    /\ Len(issues) = 1

\* C5: every recorded cycle is the suffix of the DFS path that begins at the
\* ON-STACK neighbour, followed by that neighbour: its first and last nodes
\* are equal and each consecutive pair of its nodes is an edge of the graph.
C5_CycleIsClosedSuffix ==
    \A k \in 1..Len(issues) :
        LET c == CycleNodes(issues[k]) IN
            /\ c[1] = c[Len(c)]
            /\ \A j \in 1..(Len(c) - 1) : Edge(c[j], c[j + 1])

\* C6: the edge an issue is attributed to (first node -> second node of its
\* sequence) is an edge of a directed cycle, so the file named by
\* issue.filePath lies on an import cycle.
C6_AttributionOnCycle ==
    \A k \in 1..Len(issues) :
        LET c == CycleNodes(issues[k]) IN
            /\ EdgeOnCycle(c[1], c[2])
            /\ \A i \in 1..Len(files) :
                 files[i].path = issues[k].filePath =>
                     \E q \in DirectedCycles :
                         [segs |-> files[i].relPath.segs, bs |-> FALSE] \in Range(q)

\* The back-edge u -> v that made the detector record the issue
BackEdge(issue) ==
    LET c == CycleNodes(issue) IN <<c[Len(c) - 1], c[Len(c)]>>

\* C7: one run reports each distinct back-edge (u, v) once: no two issues
\* come from the same back-edge, also when u imports v several times.
C7_OneIssuePerBackEdge ==
    \A j, k \in 1..Len(issues) :
        j # k => BackEdge(issues[j]) # BackEdge(issues[k])

\* The relPath of a file written with forward slashes
Slashed(p) == [segs |-> p.segs, bs |-> FALSE]
SlashedRelPaths == {Slashed(files[i].relPath) : i \in 1..Len(files)}

\* C8: after graph construction the nodes are exactly the normalized relPaths
\* of the input files (a file without imports has a node without edges),
\* every edge target is a node, and every node of a reported cycle is a node.
C8_NodesAreInputFiles ==
    GraphBuilt =>
        LET inputs == SlashedRelPaths IN
            /\ Nodes = inputs
            /\ Range(graphKeys) = inputs
            /\ \A i \in 1..Len(files) :
                 RelativeImports(files[i]) = {} =>
                     graph[Slashed(files[i].relPath)] = <<>>
            /\ \A u \in Nodes : Range(graph[u]) \subseteq inputs
            /\ \A k \in 1..Len(issues) :
                 Range(CycleNodes(issues[k])) \subseteq inputs

\* A snapshot holding the backslash-written file and a file without imports
\* has been searched and a cycle was reported
C8_Witness ==
    /\ pc = "done"
    /\ Len(files) = 3
    /\ \E i \in 1..Len(files) : RelativeImports(files[i]) = {}
    /\ \E u \in Nodes : B_INDEX.segs \in {v.segs : v \in Range(graph[u])}
    /\ issues # <<>>

\* The candidate list as the resolver's contract states it
ClaimedCandidates(base) ==
    LET last == base.segs[Len(base.segs)]
        sibling(ext) ==
            Str([base.segs EXCEPT ![Len(base.segs)] = last \o <<ext>>])
        index(ext) ==
            Str((IF base.segs = <<Dot>> THEN <<>> ELSE base.segs)
                  \o <<<<"index", ext>>>>)
    IN  <<base, sibling("ts"), sibling("tsx"), sibling("js"), sibling("jsx"),
          index("ts"), index("tsx"), index("js"), index("jsx")>>

ClaimedResolve(fromRel, raw) ==
    LET base == Slashed(PathJoin(PathDirname(fromRel), raw))
        cl == ClaimedCandidates(base)
        hits == {i \in 1..Len(cl) : cl[i] \in SlashedRelPaths}
    IN  IF hits = {} THEN Undefined
        ELSE cl[CHOOSE i \in hits : \A j \in hits : i <= j]

IsResolved(x) == x # Undefined

\* The edges the contract gives a file: its relative specifiers in source
\* order, each resolved, the unresolved ones dropped
ClaimedDeps(f) ==
    LET rel == [k \in 1..Len(f.lines) |->
                  IF k \in RelativeImports(f)
                  THEN ClaimedResolve(f.relPath, f.lines[k].spec)
                  ELSE Undefined]
    IN  SelectSeq(rel, IsResolved)

\* The graph has just been built (the detector does not change it)
JustBuilt == pc = "dfs" /\ ri = 0 /\ frames = <<>>

\* C10: resolveRelativeToKnownFile returns the first member of [base,
\* base.ts, base.tsx, base.js, base.jsx, base/index.ts, base/index.tsx,
\* base/index.js, base/index.jsx] that is a known normalized relPath, and
\* nothing (no edge) when none is known; an earlier known candidate wins.
\* Checked on the graph as the builder leaves it and on every call it made,
\* for every set of known files among the nine candidates.
C10_ResolveFirstKnown ==
    JustBuilt =>
        \A i \in 1..Len(files) :
            /\ graph[Slashed(files[i].relPath)] = ClaimedDeps(files[i])
            /\ \A k \in RelativeImports(files[i]) :
                 resolveRelativeToKnownFile(files[i].relPath,
                                            files[i].lines[k].spec, files)
                   = ClaimedResolve(files[i].relPath, files[i].lines[k].spec)

\* "./b" was resolved to src/b.tsx while src/b.tsx, src/b.js and the four
\* index files are known and src/b, src/b.ts and src/b.jsx are not
C10_Witness ==
    /\ pc = "done"
    /\ files[1].lines = <<[kind |-> "from", spec |-> Str(<<Dot, <<"b">>>>)]>>
    /\ SlashedRelPaths = {A_TS} \cup (Range(ProbeFiles) \
                             {B_TS, Str(<<<<"src">>, <<"b">>>>),
                              Str(<<<<"src">>, <<"b", "jsx">>>>)})
    /\ graph[A_TS] = <<Str(<<<<"src">>, <<"b", "tsx">>>>)>>

\* An issue without its line
Unlined(issue) == [x \in (DOMAIN issue) \ {"line"} |-> issue[x]]

FileOf(node) == files[CHOOSE i \in 1..Len(files) : Slashed(files[i].relPath) = node]

\* C9 as stated: adding or removing imports whose specifier does not start
\* with "." leaves the graph and the returned issue list unchanged.
C9_ExternalEditKeepsIssueList ==
    (pc = "done" /\ edit = "external") =>
        /\ graph = prev.graph
        /\ graphKeys = prev.graphKeys
        /\ issues = prev.issues

\* C9, amended: an import whose specifier does not start with "." never adds
\* an edge: adding or removing such imports leaves the graph unchanged and
\* the returned issues unchanged in number, order and every field but line
\* (the line may shift with the lines added or removed), and every step of
\* a reported cycle is an edge given by a relative import.
C9_ExternalEditKeepsCycles ==
    /\ (pc = "done" /\ edit = "external") =>
         /\ graph = prev.graph
         /\ graphKeys = prev.graphKeys
         /\ Len(issues) = Len(prev.issues)
         /\ \A k \in 1..Len(issues) :
              Unlined(issues[k]) = Unlined(prev.issues[k])
    /\ JustBuilt =>
         \A u \in Nodes : Range(graph[u]) \subseteq Range(ClaimedDeps(FileOf(u)))
    /\ pc = "done" =>
         \A k \in 1..Len(issues) :
             LET c == CycleNodes(issues[k]) IN
                 \A j \in 1..(Len(c) - 1) :
                     c[j + 1] \in Range(ClaimedDeps(FileOf(c[j])))

\* A package import stands in a file of a reported cycle after the edit
C9_Witness ==
    /\ pc = "done"
    /\ edit = "external"
    /\ issues # <<>>
    /\ issues # prev.issues
    /\ \E k \in 1..Len(FileOf(CycleNodes(issues[1])[1]).lines) :
         NonRelativeImport(FileOf(CycleNodes(issues[1])[1]).lines[k])

\* C11: whenever an issue carries a line, that line is the 1-based index, in
\* the file of the cycle's first node, of the import statement responsible
\* for the edge to the cycle's second node: the specifier written on that
\* line is relative and resolves, by the resolver's precedence, to the
\* second node.
C11_LineNamesTheEdge ==
    \A k \in 1..Len(issues) :
        issues[k].line # <<>> =>
            LET c == CycleNodes(issues[k])
                f == FileOf(c[1])
                n == issues[k].line[1]
            IN  /\ n \in RelativeImports(f)
                /\ ClaimedResolve(f.relPath, f.lines[n].spec) = c[2]

\* The detector as a function of the graph alone: the node sequences it
\* records, in order, threading [cycles, visited, stack] through the calls
RECURSIVE Explore(_, _, _, _)
Explore(g, node, pathStack, st) ==
    IF node \in st.stack
    THEN [st EXCEPT !.cycles = Append(@, Append(pathStack, node))]
    ELSE IF node \in st.visited THEN st
    ELSE LET nbs == Neighbors(g, node)
             RECURSIVE Loop(_, _)
             Loop(i, t) ==
                 IF i > Len(nbs) THEN t
                 ELSE Loop(i + 1, Explore(g, nbs[i], Append(pathStack, node), t))
             after == Loop(1, [st EXCEPT !.visited = @ \cup {node},
                                         !.stack = @ \cup {node}])
         IN  [after EXCEPT !.stack = @ \ {node}]

RECURSIVE ExploreRoots(_, _, _, _)
ExploreRoots(g, keys, i, st) ==
    IF i > Len(keys) THEN st
    ELSE ExploreRoots(g, keys, i + 1, Explore(g, keys[i], <<>>, st))

CyclesAlone(g, keys) ==
    ExploreRoots(g, keys, 1, [cycles |-> <<>>, visited |-> {}, stack |-> {}]).cycles

\* The specifiers the locator looks for: the path from the first node's
\* directory to the second node, "./" put before it unless it begins with a
\* dot, as it is and without its extension
RecomputedSpecs(start, next) ==
    LET r == RelWithDot(Slashed(PathRelative(Slashed(PathDirname(start)),
                                             Slashed(next))))
    IN  {r, WithoutExt(r)}

\* No line of the first node's file is  from "<spec>"  or  require("<spec>")
\* for a recomputed specifier
Unlocatable(issue) ==
    LET c == CycleNodes(issue)
        f == FileOf(c[1])
    IN  \A n \in 1..Len(f.lines) :
            ~(/\ f.lines[n].kind \in {"from", "require"}
              /\ f.lines[n].spec \in RecomputedSpecs(c[1], c[2]))

\* C12: when no line of the first node's file matches the recomputed
\* specifier (as when the edge came from a directory specifier resolved
\* through an index.* candidate), the issue for the cycle is still emitted,
\* with line absent: the run returns one issue for every cycle the detector
\* records on this graph, located or not, and an unlocatable one has no line.
C12_UnlocatableStillEmitted ==
    pc = "done" =>
        /\ [k \in 1..Len(issues) |-> CycleNodes(issues[k])]
              = CyclesAlone(graph, graphKeys)
        /\ \A k \in 1..Len(issues) :
             Unlocatable(issues[k]) => issues[k].line = <<>>

\* src/a.ts imports "./b", resolved to src/b/index.ts, which imports back:
\* the cycle that starts at src/a.ts is returned without a line
C12_Witness ==
    /\ pc = "done"
    /\ \E k \in 1..Len(issues) :
         /\ CycleNodes(issues[k]) = <<A_TS, Slashed(B_INDEX), A_TS>>
         /\ FileOf(A_TS).lines = <<[kind |-> "from", spec |-> Str(<<Dot, <<"b">>>>)]>>
         /\ Unlocatable(issues[k])
         /\ issues[k].line = <<>>

\* C13: every issue produced for a cycle has severity ERROR, ruleId
\* "circular-deps", id equal to "cycle:" followed by the cycle's nodes joined
\* by "->", a message holding the nodes joined by an arrow, and filePath
\* equal to the absolute path of the input file whose normalized relPath is
\* the cycle's first node.
C13_IssueFields ==
    pc = "done" =>
        LET cycles == CyclesAlone(graph, graphKeys) IN
            /\ Len(issues) = Len(cycles)
            /\ \A k \in 1..Len(issues) :
                 /\ issues[k].severity = "ERROR"
                 /\ issues[k].ruleId = "circular-deps"
                 /\ issues[k].id =
                       [prefix |-> "cycle:", sep |-> "->", nodes |-> cycles[k]]
                 /\ issues[k].message.sep = " -> "
                 /\ issues[k].message.nodes = cycles[k]
                 /\ \E i \in 1..Len(files) :
                      /\ Slashed(files[i].relPath) = cycles[k][1]
                      /\ issues[k].filePath = files[i].path
                      /\ issues[k].filePath =
                            [root |-> "/ws", rel |-> files[i].relPath]

\* Two issues were returned, one of them for a cycle that starts at the file
\* whose relPath is written with backslashes
C13_Witness ==
    /\ pc = "done"
    /\ Len(issues) >= 2
    /\ \E k \in 1..Len(issues) :
         /\ CycleNodes(issues[k])[1] = Slashed(B_INDEX)
         /\ issues[k].filePath = [root |-> "/ws", rel |-> B_INDEX]

\* No node of the sequence holds the characters "->"
ArrowFree(nodes) == \A i \in 1..Len(nodes) : "->" \notin Range(Text(nodes[i]))

\* C14 as stated: the issue id is a function of the cycle's node sequence
\* alone: two issues have the same id exactly when their cycle node
\* sequences are identical.
C14_SameIdIffSameNodes ==
    \A j, k \in 1..Len(issues) :
        (IdText(issues[j].id) = IdText(issues[k].id))
            <=> (CycleNodes(issues[j]) = CycleNodes(issues[k]))

\* C14, amended: two issues with identical node sequences have the same id,
\* and two issues with the same id have identical node sequences provided
\* no node of either holds the characters "->".
C14_SameIdIffSameNodesArrowFree ==
    \A j, k \in 1..Len(issues) :
        /\ (CycleNodes(issues[j]) = CycleNodes(issues[k]))
              => (IdText(issues[j].id) = IdText(issues[k].id))
        /\ (/\ ArrowFree(CycleNodes(issues[j]))
            /\ ArrowFree(CycleNodes(issues[k]))
            /\ IdText(issues[j].id) = IdText(issues[k].id))
              => (CycleNodes(issues[j]) = CycleNodes(issues[k]))

\* One run returned two issues for different node sequences that begin with
\* the same file and hold no "->", and their ids differ
C14_Witness ==
    /\ pc = "done"
    /\ \E j, k \in 1..Len(issues) :
         /\ CycleNodes(issues[j]) # CycleNodes(issues[k])
         /\ CycleNodes(issues[j])[1] = CycleNodes(issues[k])[1]
         /\ ArrowFree(CycleNodes(issues[j]))
         /\ ArrowFree(CycleNodes(issues[k]))
         /\ IdText(issues[j].id) # IdText(issues[k].id)

\* C15: running the rule twice on the same snapshot (same files in the same
\* order) returns identical issue lists, the same ids in the same order, and
\* builds the same graph: nothing survives from the first run.
C15_RerunSameIssues ==
    (pc = "done" /\ edit = "same") =>
        /\ issues = prev.issues
        /\ [k \in 1..Len(issues) |-> IdText(issues[k].id)]
              = [k \in 1..Len(prev.issues) |-> IdText(prev.issues[k].id)]
        /\ graph = prev.graph
        /\ graphKeys = prev.graphKeys

\* The second run has returned, as the first did, two issues or more
C15_Witness ==
    /\ pc = "done"
    /\ edit = "same"
    /\ Len(prev.issues) >= 2
    /\ issues = prev.issues

\* What run() returns for a snapshot when nothing else is going on
IssuesAlone(fs) ==
    LET g == GraphAfter(fs, Len(fs))
        cycles == CyclesAlone(g.map, g.keys)
    IN  [k \in 1..Len(cycles) |-> MakeIssue(cycles[k], fs)]

\* C16: two invocations of run() whose DFS steps are interleaved in any way
\* do not interfere: each returns exactly the issue list it returns when
\* run alone.
C16_InterleavedRunsIndependent ==
    /\ (pc = "done" /\ other.pc # "none") => issues = IssuesAlone(files)
    /\ other.pc = "done" => other.issues = IssuesAlone(other.files)

\* Both invocations have returned issues after changing places while both
\* were inside dfs
C16_Witness ==
    /\ pc = "done"
    /\ other.pc = "done"
    /\ other.mid
    /\ issues # <<>>
    /\ other.issues # <<>>
    /\ other.files # files

\* C17: run() never modifies its input: no step of a run changes a
\* ScannedFile record (path, relPath, lines) or the order of the files.
C17_InputUnchanged == [][files' = files]_vars

\* A run over three files, one of them with a relPath written with
\* backslashes, has built its graph, found a cycle and returned
C17_Witness ==
    /\ pc = "done"
    /\ Len(files) = 3
    /\ \E i \in 1..Len(files) : files[i].relPath.bs
    /\ issues # <<>>

\* C18: the issue list returned by scanWorkspace is sorted by severity rank
\* descending (ERROR before WARN before INFO) and, among issues of equal
\* severity, by filePath ascending.
C18_SortedBySeverityDescending ==
    ret # <<>> =>
        \A i, j \in 1..Len(ret[1]) :
            i < j =>
                /\ order[ret[1][i].severity] >= order[ret[1][j].severity]
                /\ (ret[1][i].severity = ret[1][j].severity)
                     => localeCompare(ret[1][i].filePath, ret[1][j].filePath) <= 0

\* C19: calculateHealthScore returns, for every list of issues, an integer
\* score between 0 and 100 inclusive, and returns 100 for the empty list
\* (both versions of the function).
C19_ScoreIntegerInRange ==
    ret # <<>> =>
        \A v \in {ret[1].capped, ret[1].linear} :
            /\ v.score % Scale = 0
            /\ 0 <= v.score
            /\ v.score <= 100 * Scale
            /\ (arg = <<>>) => (v.score = 100 * Scale)

\* A list for which every capped penalty is at its cap is scored 0, its
\* INFO penalty having been cut to 15
C19_Witness ==
    /\ ret # <<>>
    /\ ret[1].capped.score = 0
    /\ SumLogPenalty(infoByRule(arg), DOMAIN infoByRule(arg)) > 15 * Scale
    /\ ret[1].linear.score > 0

\* The status of a node, read from the two sets
StatusIn(n, vis, stk) ==
    IF n \in stk THEN "ON-STACK"
    ELSE IF n \in vis THEN "DONE"
    ELSE "UNVISITED"

\* C20: during one run each node's status only moves UNVISITED -> ON-STACK
\* -> DONE: a node is put ON-STACK at most once, is never ON-STACK again
\* after it is DONE, and is marked DONE and removed from the stack only after
\* all of its outgoing edges have been explored.
C20_StatusMovesForward ==
    [][\A n \in DOMAIN graph :
          LET before == StatusIn(n, visited, stack)
              after == StatusIn(n, visited', stack')
          IN  /\ <<before, after>> \in
                    {<<"UNVISITED", "UNVISITED">>, <<"UNVISITED", "ON-STACK">>,
                     <<"ON-STACK", "ON-STACK">>, <<"ON-STACK", "DONE">>,
                     <<"DONE", "DONE">>}
              /\ (before = "ON-STACK" /\ after = "DONE") =>
                    /\ frames # <<>>
                    /\ frames[Len(frames)].node = n
                    /\ frames[Len(frames)].i = Len(graph[n])
                    /\ frames' = SubSeq(frames, 1, Len(frames) - 1)]_vars

\* Three nodes are DONE, one of them with two outgoing edges, after a run
\* that met a back-edge
C20_Witness ==
    /\ pc = "done"
    /\ Cardinality(Nodes) = 3
    /\ \A n \in Nodes : StatusIn(n, visited, stack) = "DONE"
    /\ \E n \in Nodes : Len(graph[n]) >= 2
    /\ issues # <<>>

\* C21: exploring an edge into a node that is DONE (visited and no longer on
\* the stack) adds no issue, does not recurse into that node's edges, and
\* leaves visited, stack and the issue list unchanged: the caller goes on
\* with its next neighbor.
C21_DoneNodeSkipped ==
    [][(/\ pc = "dfs"
        /\ frames # <<>>
        /\ frames[Len(frames)].i < Len(graph[frames[Len(frames)].node])
        /\ StatusIn(graph[frames[Len(frames)].node][frames[Len(frames)].i + 1],
                    visited, stack) = "DONE")
          => /\ issues' = issues
             /\ visited' = visited
             /\ stack' = stack
             /\ frames' = [frames EXCEPT ![Len(frames)].i = @ + 1]]_vars

\* a imports b and c, b imports c, c imports nothing, and the search began
\* at a: the edge a -> c was explored when c was DONE; nothing was reported
C21_Witness ==
    /\ pc = "done"
    /\ issues = <<>>
    /\ \E a, b, c \in Nodes :
         /\ graphKeys[1] = a
         /\ graph[a] = <<b, c>>
         /\ graph[b] = <<c>>
         /\ graph[c] = <<>>
         /\ a # b /\ b # c /\ a # c

\* The number of edge occurrences: the entries of all dependency arrays
RECURSIVE EdgeOccurrences(_, _)
EdgeOccurrences(g, nodes) ==
    IF nodes = {} THEN 0
    ELSE LET n == CHOOSE x \in nodes : TRUE
         IN  Len(g[n]) + EdgeOccurrences(g, nodes \ {n})

\* How many steps a run has left at most: twice the dfs calls still
\* possible, plus the calls in progress, plus the return of run(); before
\* the graph is built, that for the largest graph the files can give
StepsLeft(p, g, c, fr, fs) ==
    IF p = "done" THEN 0
    ELSE IF p = "dfs"
    THEN 2 * (Cardinality(DOMAIN g) + EdgeOccurrences(g, DOMAIN g) - c.dfs)
           + Len(fr) + 1
    ELSE 2 * (Len(fs) + TotalLines(fs)) + 2

\* A run that has not returned has a step to take: the graph is still to
\* be built, or a loop of the traversal is at a position within its list
CanStep ==
    \/ pc = "build"
    \/ /\ pc = "dfs"
       /\ frames = <<>>
       /\ ri <= Len(graphKeys)
    \/ /\ pc = "dfs"
       /\ frames # <<>>
       /\ frames[Len(frames)].i
            <= Len(Neighbors(graph, frames[Len(frames)].node))

\* C22: run() terminates on every finite snapshot, cyclic or not: the body
\* of dfs past the visited check runs at most once per node, so the total
\* number of dfs calls is at most the number of nodes plus the number of
\* edge occurrences. Every step of a run lowers the number of steps it has
\* left, which is never negative, and a run that has not returned can step.
C22_RunTerminates ==
    /\ [](/\ calls.body <= Cardinality(Nodes)
          /\ calls.dfs <= Cardinality(Nodes) + EdgeOccurrences(graph, Nodes)
          /\ StepsLeft(pc, graph, calls, frames, files) >= 0
          /\ pc # "done" => CanStep)
    /\ [][StepsLeft(pc', graph', calls', frames', files')
            < StepsLeft(pc, graph, calls, frames, files)]_vars

\* A run over a graph of three nodes with a cycle has returned after
\* entering dfs once per node and once per edge occurrence
C22_Witness ==
    /\ pc = "done"
    /\ Cardinality(Nodes) = 3
    /\ issues # <<>>
    /\ calls.body = 3
    /\ calls.dfs = 3 + EdgeOccurrences(graph, Nodes)
    /\ EdgeOccurrences(graph, Nodes) = 3

----------------------------------------------------------------------------
\* C28: at every entry to dfs the path argument lists exactly the nodes
\* currently in stack, without repetition and in push order, so the issue
\* sequence [...pathStack, node] is the ancestor chain from its root; every
\* node in stack is in visited; and when the root loop finishes, stack is
\* empty and visited contains every graph node. The open calls are the
\* frames, and a call made from the top frame is passed that frame's
\* pathStack followed by its node.
C28_PathIsStack ==
    /\ \A k \in 1..Len(frames) :
         frames[k].pathStack = [j \in 1..(k - 1) |-> frames[j].node]
    /\ \A j, k \in 1..Len(frames) :
         frames[j].node = frames[k].node => j = k
    /\ stack = {frames[k].node : k \in 1..Len(frames)}
    /\ stack \subseteq visited
    /\ (pc = "dfs" /\ frames = <<>> /\ ri = Len(graphKeys))
         => (stack = {} /\ visited = Nodes)
    /\ pc = "done" => (stack = {} /\ visited = Nodes)

\* Three calls are open, the third about to call dfs on a neighbor
C28_Witness ==
    /\ pc = "dfs"
    /\ Len(frames) = 3
    /\ Len(frames[3].pathStack) = 2
    /\ Cardinality(stack) = 3
    /\ frames[3].i < Len(Neighbors(graph, frames[3].node))

----------------------------------------------------------------------------
\* The nodes reached from d by a walk of one or more edges
ReachableFrom(d) ==
    {v \in Nodes :
        \E q \in UNION {[1..n -> Nodes] : n \in 1..Cardinality(Nodes)} :
            /\ Edge(d, q[1])
            /\ \A k \in 1..(Len(q) - 1) : Edge(q[k], q[k + 1])
            /\ q[Len(q)] = v}

\* d lies on a directed cycle
OnDirectedCycle(d) == \E q \in DirectedCycles : d \in Range(q)

\* The pairs still missing from graphAll if every node reached every node
Missing ==
    LET RECURSIVE Held(_)
        Held(k) == IF k = 0 THEN 0
                   ELSE Len(graphAll[graphKeys[k]]) + Held(k - 1)
    IN  Len(graphKeys) * Len(graphKeys) - Held(Len(graphKeys))

\* How many steps the transitive-closure version has left at most
ClosureStepsLeft(p, n, missing, changed, i, nfiles) ==
    LET pending == missing + (IF changed THEN 1 ELSE 0) IN
    IF p = "done" THEN 0
    ELSE IF p = "collect" THEN n - i + 1
    ELSE IF p = "while" THEN pending * (n + 3) + n + 2
    ELSE IF p = "forin" THEN pending * (n + 3) + (n - i) + n + 3
    ELSE (nfiles * nfiles + 1) * (nfiles + 3) + nfiles + 3

\* C23: in the transitive-closure version the fixed-point loop terminates
\* with graphAll[d] equal to the set of nodes reachable from d by one or
\* more edges, so the enumeration is started from exactly the nodes d that
\* lie on a directed cycle (d in graphAll[d]), and the direct-edge graph is
\* left unchanged by the loop. Termination: every step lowers the number of
\* steps left, which is never negative.
C23_ClosureIsReachability ==
    /\ [](/\ (pc = "collect" /\ ri = 0) =>
                LET onCycle == UNION {Range(q) : q \in DirectedCycles} IN
                    \A d \in Nodes :
                        /\ Range(graphAll[d]) = ReachableFrom(d)
                        /\ (d \in Range(graphAll[d])) <=> (d \in onCycle)
          /\ ClosureStepsLeft(pc, Len(graphKeys), Missing, hasChanges, ri,
                              Len(files)) >= 0)
    /\ [][
           /\ ClosureStepsLeft(pc', Len(graphKeys'), Missing', hasChanges', ri',
                              Len(files'))
               < ClosureStepsLeft(pc, Len(graphKeys), Missing, hasChanges, ri,
                                  Len(files))
           /\ pc \in {"while", "forin"} =>
                 (graph' = graph /\ graphKeys' = graphKeys)
           /\ pc = "collect" => (graphAll' = graphAll /\ graph' = graph)
           /\ (pc = "collect" /\ pc' = "collect") =>
                 ((issues' # issues)
                    <=> (graphKeys[ri + 1] \in Range(graphAll[graphKeys[ri + 1]])))
       ]_vars

\* The loop has ended after more than two passes, on three files in a
\* cycle, and getIssues has been started from each of them
C23_Witness ==
    /\ pc = "done"
    /\ Cardinality(Nodes) = 3
    /\ \A d \in Nodes : Range(graphAll[d]) = Nodes /\ Len(graph[d]) = 1
    /\ Len(issues) = 3

----------------------------------------------------------------------------
\* q2 lists the nodes of q1 in the same cyclic order, from another start
Rotation(q1, q2) ==
    /\ Len(q1) = Len(q2)
    /\ \E r \in 0..(Len(q1) - 1) :
         \A k \in 1..Len(q1) : q2[k] = q1[((k - 1 + r) % Len(q1)) + 1]

\* The only cycle of the graph is one simple cycle through two or more nodes
OneSimpleCycle ==
    /\ DirectedCycles # {}
    /\ \A q \in DirectedCycles : Len(q) >= 2
    /\ \A q1, q2 \in DirectedCycles : Rotation(q1, q2)

\* C24: the transitive-closure version re-reports one real cycle from
\* several entry nodes: for a graph whose only cycle is a simple cycle
\* through k >= 2 files it returns k issues, one starting at each file of
\* the cycle, each a rotation of the same cycle.
C24_OneIssuePerEntryNode ==
    (pc = "done" /\ OneSimpleCycle) =>
        /\ \A q \in DirectedCycles : Len(issues) = Len(q)
        /\ \A q \in DirectedCycles :
             Cardinality({i \in 1..Len(issues) :
                             issues[i].id.nodes = Append(q, q[1])}) = 1
        /\ \A i \in 1..Len(issues) :
             \E q \in DirectedCycles : issues[i].id.nodes = Append(q, q[1])

\* Three files, two of them importing each other and the third importing
\* one of the two: two issues for the one cycle
C24_Witness ==
    /\ pc = "done"
    /\ OneSimpleCycle
    /\ Cardinality(Nodes) = 3
    /\ Cardinality(DirectedCycles) = 2
    /\ Len(issues) = 2
    /\ issues[1].id.nodes # issues[2].id.nodes
    /\ \E x \in Nodes : ~OnDirectedCycle(x) /\ graph[x] # <<>>

----------------------------------------------------------------------------
\* One issue per distinct id is kept, the first
DedupById(list) ==
    LET RECURSIVE Kept(_)
        Kept(k) ==
            IF k = 0 THEN <<>>
            ELSE IF \E j \in 1..(k - 1) : IdText(list[j].id) = IdText(list[k].id)
                 THEN Kept(k - 1)
                 ELSE Append(Kept(k - 1), list[k])
    IN  Kept(Len(list))

\* The issue reports the directed cycle q: its node sequence, from the first
\* occurrence of its last node on, lists the nodes of q in cyclic order
Reports(issue, q) ==
    LET nodes == issue.id.nodes
        from == CHOOSE k \in 1..Len(nodes) :
                    /\ nodes[k] = nodes[Len(nodes)]
                    /\ \A j \in 1..(k - 1) : nodes[j] # nodes[Len(nodes)]
    IN  /\ from < Len(nodes)
        /\ Rotation(q, SubSeq(nodes, from, Len(nodes) - 1))

\* C25: deduplicating the issue list by the id key removes the duplicate
\* reports of a single real cycle: after one issue per distinct id is kept,
\* each directed cycle of the graph is represented by at most one issue,
\* also for the results of the transitive-closure version.
C25_DedupByIdOnePerCycle ==
    pc = "done" =>
        \A q \in DirectedCycles :
            Cardinality({i \in 1..Len(DedupById(issues)) :
                            Reports(DedupById(issues)[i], q)}) <= 1

----------------------------------------------------------------------------
\* C26: getIssues(start, path, visited, ...) never extends a path into a
\* node that is already in the visited set unless that node is path[0]: it
\* returns no issues when the start node is absent from the graph, when it
\* has no dependencies, when no path leads back to it, and when every
\* successor of it is already in the visited set passed by the caller.
C26_VisitedNeverReentered ==
    ret # <<>> =>
        LET start == arg.dependency
            passed == arg.visited
            run == ret[1]
        IN  /\ \A k \in 1..Len(run.bodies) :
                 LET b == run.bodies[k] IN
                     /\ b.dependency \notin b.visited
                     /\ b.dependency \notin passed
                     /\ b.dependency \notin Range(b.path)
                     /\ Range(b.path) \subseteq b.visited
            /\ \A i \in 1..Len(run.issues) :
                 LET nodes == run.issues[i].id.nodes IN
                     /\ nodes[1] = start
                     /\ nodes[Len(nodes)] = start
                     /\ \A j \in 1..(Len(nodes) - 1) : nodes[j] \notin passed
                     /\ \A j, k \in 1..(Len(nodes) - 1) :
                          nodes[j] = nodes[k] => j = k
            /\ start \notin DOMAIN graph => run.issues = <<>>
            /\ Neighbors(graph, start) = <<>> => run.issues = <<>>
            /\ start \notin ReachableFrom(start) => run.issues = <<>>
            /\ Range(Neighbors(graph, start)) \subseteq passed
                 => run.issues = <<>>

\* a.ts and b.ts import each other, and getIssues is called from a.ts with
\* b.ts in visited: it has entered its body once and returned no issue
C26_Witness ==
    /\ ret # <<>>
    /\ arg.dependency = A_TS
    /\ arg.visited = {B_TS}
    /\ A_TS \in DOMAIN graph
    /\ B_TS \in DOMAIN graph
    /\ graph[A_TS] = <<B_TS>>
    /\ graph[B_TS] = <<A_TS>>
    /\ ret[1].issues = <<>>
    /\ Len(ret[1].bodies) = 1
    /\ visited = {A_TS, B_TS}

----------------------------------------------------------------------------
\* This step resumes the handler tasks[k], which was awaiting a scan
ScanResolves(k) ==
    /\ k \in 1..Len(tasks)
    /\ tasks[k].at \in {"scanWorkspace", "scan1", "scan2"}
    /\ \/ tasks' = RemoveAt(tasks, k)
       \/ tasks' = [tasks EXCEPT ![k].at = "edit"]

\* C27: the baseline is set by the first scan that completes while baseline
\* is null; a later reactDoctor.scan executed while baseline is non-null
\* leaves it unchanged; and baseline changes afterwards only through
\* reactDoctor.fixAllSafe (to the after-fix snapshot) or
\* reactDoctor.resetBaseline (to null).
C27_BaselineChanges ==
    [][/\ baseline' # baseline =>
            \/ /\ baseline = Null
               /\ \E k \in 1..Len(tasks) : ScanResolves(k)
               /\ baseline' = makeSnapshot(lastIssues')
            \/ /\ \E k \in 1..Len(tasks) :
                    /\ tasks[k].at = "scan2"
                    /\ tasks' = RemoveAt(tasks, k)
               /\ baseline' = makeSnapshot(lastIssues')
            \/ /\ baseline' = Null
               /\ tasks' = tasks
       /\ (/\ baseline # Null
           /\ \E k \in 1..Len(tasks) :
                tasks[k].cmd = "scan" /\ tasks' = RemoveAt(tasks, k))
            => baseline' = baseline
      ]_vars

----------------------------------------------------------------------------
\* The five fields the key of setIssues is made of
FieldsOf(i) == <<i.severity, i.ruleId, i.filePath, i.line, i.message>>

\* The input with later duplicates removed, two issues being duplicates
\* when they agree on the five fields
FirstOccurrences(list) ==
    LET RECURSIVE Kept(_)
        Kept(k) ==
            IF k = 0 THEN <<>>
            ELSE IF \E j \in 1..(k - 1) : FieldsOf(list[j]) = FieldsOf(list[k])
                 THEN Kept(k - 1)
                 ELSE Append(Kept(k - 1), list[k])
    IN  Kept(Len(list))

\* C29: after any call IssuesProvider.setIssues(issues) the stored issues
\* are the input with later duplicates removed: no two stored issues share
\* the same (severity, ruleId, filePath, line, message), every input
\* issue's key is present, and the stored issues keep the relative order of
\* their first occurrences; the showAllInfo flag is left unchanged.
C29_StoredIsInputDeduplicated ==
    /\ [](ret # <<>> =>
            /\ \A j, k \in 1..Len(providerIssues) :
                 FieldsOf(providerIssues[j]) = FieldsOf(providerIssues[k])
                     => j = k
            /\ \A i \in 1..Len(arg) :
                 \E k \in 1..Len(providerIssues) :
                     FieldsOf(providerIssues[k]) = FieldsOf(arg[i])
            /\ providerIssues = FirstOccurrences(arg))
    /\ [][(ret = <<>> /\ ret' # <<>>) => showAllInfo' = showAllInfo]_vars

----------------------------------------------------------------------------
====
